---- MODULE Spec2Model ----
(***************************************************************************)
(* Salesforce -> local store synchronisation (backend/services).           *)
(*                                                                         *)
(* Two sync engines share the sync_logs table:                             *)
(*   LeadSyncService (services/lead_sync_service.py) on the leads table,   *)
(*   SyncService     (services/sync_service.py) on salesforce_records.     *)
(* A pass is a sequence of steps; every step ends at a database commit     *)
(* (BaseModel.save) or at a remote call, so the states of the model are    *)
(* the persisted states another request can observe.  Each step is a pure  *)
(* operator on (database, pass-local state, inputs); the actions apply     *)
(* these operators, and RunPass iterates them for one uninterrupted pass.  *)
(*                                                                         *)
(* Time is counted in minutes.  The mutable remote fields of a record are  *)
(* folded into one version number `val`.                                   *)
(***************************************************************************)
EXTENDS Integers, Sequences, FiniteSets, TLC

\* ------------------------------------------------------------- bounds ----
MaxTicks == 2          \* clock advances per behaviour
TickMinutes == 3       \* minutes per clock advance
MaxPasses == 2         \* sync passes started per behaviour
MaxFaults == 1         \* injected remote/store failures per behaviour
MaxRemoteOps == 1      \* remote modifications/deletions per behaviour
MaxPlanStep == 12      \* steps of an uninterrupted pass at which a failure may be injected
MaxLogs == 2           \* entries of a log table the log queries are applied to
MaxLogTime == 1        \* latest start or end time of such an entry
MaxLimit == 2          \* largest limit asked of get_recent_logs
MaxBatch == 2          \* most records in a list handed back by the remote source
MaxDeleted == 1        \* most identifiers in a list of deletions handed back
MaxLogins == 1         \* most OAuth flows started (state values issued)
MaxAnswers == 2        \* most requests answered by the OAuth callback and the 401 of the sync route

\* --------------------------------------------------- program constants --
BufferMinutes == 5     \* timedelta(minutes=5)
NoTime == -1           \* None in a nullable DateTime column

Ids == {"L1", "L2"}
IdOrder == <<"L1", "L2">>      \* the order in which the remote source lists records
\* an Id that is empty
NoId == ""

LeadType == "Lead"             \* object_type of LeadSyncService's log entries
ObjType == "Object1"           \* key of the registered SalesforceObject (obj.id)
SyncTypes == {"full", "incremental"}
Terminal == {"completed", "failed"}   \* the statuses of an entry whose pass has ended
\* what the body of a sync request may carry as its type: a mode, or another string
RequestTypes == SyncTypes \cup {"other"}

VARIABLES
    now,             \* datetime.utcnow(), in minutes
    remote,          \* the Salesforce org: id -> [present, val, lm, deleted_at]
    leads,           \* table leads: sequence of rows [sf_id, val, is_deleted]
    records,         \* table salesforce_records: rows [sf_id, data, last_modified_date, is_deleted]
    last_sync_time,  \* SalesforceObject.last_sync_time of the registered object
    registered,      \* the SalesforceObject row exists
    sync_logs,       \* table sync_logs, in id order
    pass,            \* the passes (requests): pass-local state and position
    faults,          \* injected failures so far
    ticks,           \* clock advances so far
    remote_ops,      \* remote modifications so far
    passes,          \* passes started so far
    lanes,           \* how many passes may run at once
    request_types,   \* the type values the clients put into their sync requests
    twin,            \* outcomes of the comparison runs (RunPass), <<>> otherwise
    oauth_states,    \* app.oauth_states: the state values stored by /api/auth/login
    user_tokens,     \* app.user_tokens: the session ids that hold a token
    issued,          \* state values generated so far (uuid4: each one is new)
    minted,          \* session ids generated so far (uuid4: each one is new)
    callback,        \* the /api/auth/callback requests in flight, by handler
    answers          \* the answers given by the callback and by the refused sync requests

\* the state of the authentication routes
AuthVars == <<oauth_states, user_tokens, issued, minted, callback, answers>>

vars == <<now, remote, leads, records, last_sync_time, registered, sync_logs, pass,
          faults, ticks, remote_ops, passes, lanes, request_types, twin, AuthVars>>

\* ------------------------------------------------------------ helpers ----
\* query.filter_by(...).first() over the matching row numbers: the first, 0 for None
First(hits) ==
    IF hits = {} THEN 0 ELSE CHOOSE k \in hits : \A j \in hits : k <= j

\* Lead.get_by_sf_id: filter_by(sf_id=sf_id, is_deleted=False).first()
Lead_get_by_sf_id(rows, sf_id) ==
    First({k \in 1..Len(rows) : rows[k].sf_id = sf_id /\ rows[k].is_deleted = FALSE})

\* SalesforceRecord.get_by_sf_id: filter_by(sf_id=sf_id).first()
SalesforceRecord_get_by_sf_id(rows, sf_id) ==
    First({k \in 1..Len(rows) : rows[k].sf_id = sf_id})

\* Lead.get_all_active: filter_by(is_deleted=False).all()
Lead_get_all_active(rows) ==
    LET Active(r) == r.is_deleted = FALSE
    IN SelectSeq(rows, Active)

\* mutant: the unique index on sf_id is missing
UniqueViolationOff(rows, sf_id) == FALSE

\* sf_id = db.Column(..., unique=True): an INSERT of a present sf_id is refused
UniqueViolation(rows, sf_id) == \E k \in 1..Len(rows) : rows[k].sf_id = sf_id

\* BaseModel.save of a new row: session.add + commit; [ok, rows]
InsertRow(rows, row, store_ok) ==
    IF store_ok /\ ~UniqueViolation(rows, row.sf_id)
    THEN [ok |-> TRUE, rows |-> Append(rows, row)]
    ELSE [ok |-> FALSE, rows |-> rows]

\* BaseModel.save of a loaded row: commit of the changed attributes; [ok, rows]
UpdateRow(rows, k, row, store_ok) ==
    IF store_ok
    THEN [ok |-> TRUE, rows |-> [rows EXCEPT ![k] = row]]
    ELSE [ok |-> FALSE, rows |-> rows]

\* ------------------------------------------------------ remote source ----
RemoteRow(id, r) == [Id |-> id, val |-> r.val, lm |-> r.lm]

\* SELECT ... FROM object: the records present at the remote source
RemoteAll(rem) ==
    LET Present(id) == rem[id].present
        ids == SelectSeq(IdOrder, Present)
    IN [k \in 1..Len(ids) |-> RemoteRow(ids[k], rem[ids[k]])]

RECURSIVE InsertByLm(_, _)
InsertByLm(sorted, r) ==
    IF sorted = <<>> THEN <<r>>
    ELSE IF r.lm < Head(sorted).lm THEN <<r>> \o sorted
    ELSE <<Head(sorted)>> \o InsertByLm(Tail(sorted), r)

RECURSIVE OrderByLm(_)
\* ORDER BY LastModifiedDate ASC
OrderByLm(rows) ==
    IF rows = <<>> THEN <<>>
    ELSE InsertByLm(OrderByLm(Tail(rows)), Head(rows))

\* WHERE LastModifiedDate >= since
RemoteSince(rem, since) ==
    LET Recent(r) == r.lm >= since
    IN SelectSeq(RemoteAll(rem), Recent)

\* mutant: only the first page of the result is returned
App_get_first_page(rem, remote_ok) ==
    IF remote_ok THEN SubSeq(RemoteAll(rem), 1, 1) ELSE <<>>

\* app.SalesforceService.get_all_records: an error of the query is logged and [] returned
App_get_all_records(rem, remote_ok) ==
    IF remote_ok THEN RemoteAll(rem) ELSE <<>>

\* app.SalesforceService.get_updated_records_since
App_get_updated_records_since(rem, last_sync_time_arg, remote_ok) ==
    IF remote_ok THEN OrderByLm(RemoteSince(rem, last_sync_time_arg)) ELSE <<>>

\* services.SalesforceService.get_all_records
Svc_get_all_records(rem, remote_ok) ==
    IF remote_ok THEN RemoteAll(rem) ELSE <<>>

\* services.SalesforceService.get_updated_records
Svc_get_updated_records(rem, last_sync_time_arg, remote_ok) ==
    IF remote_ok THEN RemoteSince(rem, last_sync_time_arg) ELSE <<>>

\* services.SalesforceService.get_deleted_records: ids deleted in [start, end]
Svc_get_deleted_records(rem, start_date, end_date, remote_ok) ==
    LET Gone(id) == /\ rem[id].deleted_at # NoTime
                    /\ start_date <= rem[id].deleted_at
                    /\ rem[id].deleted_at <= end_date
    IN IF remote_ok THEN SelectSeq(IdOrder, Gone) ELSE <<>>

\* ----------------------------------------------------------- sync log ----
\* SyncLog(object_type=..., sync_type=..., status='started', start_time=utcnow())
NewSyncLog(object_type, sync_type, t) ==
    [object_type |-> object_type, sync_type |-> sync_type, status |-> "started",
     start_time |-> t, end_time |-> NoTime,
     records_processed |-> 0, records_created |-> 0,
     records_updated |-> 0, records_deleted |-> 0,
     error_message |-> ""]

\* the rows SyncLog.get_latest_successful_sync orders: status 'completed' of the type
CompletedOf(logs, object_type) ==
    {k \in 1..Len(logs) : logs[k].object_type = object_type /\ logs[k].status = "completed"}

\* mutant: the latest entry that has ended, whatever its status
get_latest_ended_sync(logs, object_type, tie) ==
    LET done == {k \in 1..Len(logs) :
                    logs[k].object_type = object_type /\ logs[k].end_time # NoTime}
        top == {k \in done : \A j \in done : logs[j].end_time <= logs[k].end_time}
    IN IF done = {} THEN 0
       ELSE IF tie = "low" THEN CHOOSE k \in top : \A j \in top : k <= j
       ELSE CHOOSE k \in top : \A j \in top : j <= k

\* SyncLog.get_latest_successful_sync: order_by(end_time.desc()).first(); rows of equal
\* end_time come in an order the database chooses (tie), 0 for None
get_latest_successful_sync(logs, object_type, tie) ==
    LET done == CompletedOf(logs, object_type)
        top == {k \in done : \A j \in done : logs[j].end_time <= logs[k].end_time}
    IN IF done = {} THEN 0
       ELSE IF tie = "low" THEN CHOOSE k \in top : \A j \in top : k <= j
       ELSE CHOOSE k \in top : \A j \in top : j <= k

Ties == {"low", "high"}

\* object_type=None: get_recent_logs does not filter
NoType == ""

\* the first row of order_by(start_time.desc()) among the rows S; rows of equal
\* start_time come in an order the database chooses (tie)
Newest(logs, S, tie) ==
    CHOOSE k \in S :
        \A j \in S : \/ logs[j].start_time < logs[k].start_time
                      \/ /\ logs[j].start_time = logs[k].start_time
                         /\ IF tie = "low" THEN k <= j ELSE j <= k

RECURSIVE RecentFrom(_, _, _, _)
\* order_by(start_time.desc()).limit(limit).all() over the rows S
RecentFrom(logs, S, limit, tie) ==
    IF S = {} \/ limit <= 0 THEN <<>>
    ELSE LET k == Newest(logs, S, tie)
         IN <<k>> \o RecentFrom(logs, S \ {k}, limit - 1, tie)

\* SyncLog.get_recent_logs: the row numbers of the entries returned, in order
get_recent_logs(logs, object_type, limit, tie) ==
    RecentFrom(logs,
               {k \in 1..Len(logs) : object_type = NoType \/ logs[k].object_type = object_type},
               limit, tie)

\* ------------------------------------------------- pass-local state ----
\* The locals of one call of sync_leads / sync_object, and broken: the request's
\* db.session needs a rollback.  fetch_err (a remote call failed), skipped (records
\* whose reconciliation raised), other_err (the environment failed another step),
\* watermark and baseline (the start_time of the entry the watermark was computed
\* from) record what happened in the pass; no step reads them.
IdlePass ==
    [svc |-> "none", sync_type |-> "none", pc |-> "idle", log |-> 0,
     recs |-> <<>>, dels |-> <<>>, i |-> 0, existing |-> 0, lead |-> 0, snap |-> <<>>,
     processed |-> 0, created |-> 0, updated |-> 0, deleted |-> 0,
     result |-> "none",
     broken |-> FALSE, fetch_err |-> FALSE, skipped |-> 0, other_err |-> FALSE,
     watermark |-> NoTime, baseline |-> NoTime]

\* the loop variables are dead once the call has returned
Returned(p, result) ==
    [p EXCEPT !.pc = "done", !.result = result, !.recs = <<>>, !.dels = <<>>,
              !.i = 0, !.existing = 0, !.lead = 0, !.snap = <<>>]

\* inputs of a step that the environment decides: whether the remote calls and the
\* commit of the step succeed, what its query does ("ok"; "fail": it raises; "abort":
\* it raises and the transaction is aborted), and the order of equal end times
Env(remote_ok, del_ok, store_ok, read, tie) ==
    [remote_ok |-> remote_ok, del_ok |-> del_ok, store_ok |-> store_ok, read |-> read,
     tie |-> tie]

CalmEnv == Env(TRUE, TRUE, TRUE, "ok", "low")

Reads == {"ok", "fail", "abort"}

\* the environment made this step fail
Injected(env) == ~env.store_ok \/ env.read # "ok"

\* mutant: a failed commit leaves the session usable
CanCommitAfterFailure(p, env) == env.store_ok

\* BaseModel.save: db.session.commit() succeeds; no handler rolls the session back, so
\* after a failed commit every later query and commit of the request raises
CanCommit(p, env) == ~p.broken /\ env.store_ok

\* Model.query...first() returns
CanRead(p, env) == ~p.broken /\ env.read = "ok"

\* the session after a query
AfterRead(p, env) == p.broken \/ env.read = "abort"

\* ---------------------------------------------------- LeadSyncService ----
\* sync_leads, lines 16-23: the log entry is created and saved
Lead_begin(db, p, sync_type, t, env) ==
    IF CanCommit(p, env)
    THEN [db |-> [db EXCEPT !.sync_logs = Append(@, NewSyncLog(LeadType, sync_type, t))],
          p |-> [p EXCEPT !.svc = "lead", !.sync_type = sync_type,
                          !.pc = "lead_sync", !.log = Len(db.sync_logs) + 1]]
    ELSE [db |-> db,
          p |-> Returned([p EXCEPT !.svc = "lead", !.sync_type = sync_type,
                                   !.other_err = TRUE], "raised")]

\* the fetched list enters the for loop
Lead_loop(p, recs) ==
    [p EXCEPT !.recs = recs, !.processed = Len(recs), !.i = 1,
              !.pc = IF Len(recs) > 0 THEN "lead_lookup" ELSE "lead_finish"]

\* _perform_full_sync, lines 55-66: get_all_records
Lead_perform_full_sync(db, p, rem, env) ==
    [db |-> db,
     p |-> Lead_loop([p EXCEPT !.fetch_err = ~env.remote_ok],
                     App_get_all_records(rem, env.remote_ok))]

\* last_sync.start_time - timedelta(minutes=5)
Lead_watermark(start_time) == start_time - BufferMinutes

\* mutant: without a completed pass the incremental mode has nothing to fetch
Lead_incremental_no_fallback(db, p, rem, env) ==
    LET last_sync == get_latest_successful_sync(db.sync_logs, LeadType, env.tie)
    IN IF ~CanRead(p, env)
       THEN [db |-> db, p |-> [p EXCEPT !.pc = "lead_fail", !.broken = AfterRead(p, env),
                                        !.other_err = TRUE]]
       ELSE IF last_sync = 0
       THEN [db |-> db, p |-> Lead_loop(p, <<>>)]
       ELSE LET since == Lead_watermark(db.sync_logs[last_sync].start_time)
            IN [db |-> db,
                p |-> Lead_loop([p EXCEPT !.fetch_err = ~env.remote_ok,
                                          !.watermark = since,
                                          !.baseline = db.sync_logs[last_sync].start_time],
                                App_get_updated_records_since(rem, since, env.remote_ok))]

\* _perform_incremental_sync, lines 94-123; a query that raises at line 95 is caught
\* by sync_leads
Lead_perform_incremental_sync(db, p, rem, env) ==
    LET last_sync == get_latest_successful_sync(db.sync_logs, LeadType, env.tie)
    IN IF ~CanRead(p, env)
       THEN [db |-> db, p |-> [p EXCEPT !.pc = "lead_fail", !.broken = AfterRead(p, env),
                                        !.other_err = TRUE]]
       ELSE IF last_sync = 0
       THEN Lead_perform_full_sync(db, p, rem, env)
       ELSE LET since == Lead_watermark(db.sync_logs[last_sync].start_time)
            IN [db |-> db,
                p |-> Lead_loop([p EXCEPT !.fetch_err = ~env.remote_ok,
                                          !.watermark = since,
                                          !.baseline = db.sync_logs[last_sync].start_time],
                                App_get_updated_records_since(rem, since, env.remote_ok))]

\* sync_leads, lines 26-29
Lead_sync(db, p, rem, env) ==
    IF p.sync_type = "full"
    THEN Lead_perform_full_sync(db, p, rem, env)
    ELSE Lead_perform_incremental_sync(db, p, rem, env)

\* lines 81-83 / 138-140: the except clause of the loop body; the loop goes on
Lead_skip(p, broken) ==
    [p EXCEPT !.skipped = @ + 1, !.broken = broken,
              !.existing = 0, !.lead = 0, !.snap = <<>>,
              !.i = @ + 1,
              !.pc = IF p.i < Len(p.recs) THEN "lead_lookup" ELSE "lead_finish"]

\* loop body, line 70 / 127: existing_lead = Lead.get_by_sf_id(sf_lead['Id'])
Lead_lookup(db, p, env) ==
    [db |-> db,
     p |-> IF CanRead(p, env)
           THEN [p EXCEPT !.existing = Lead_get_by_sf_id(db.leads, p.recs[p.i].Id),
                          !.pc = "lead_load"]
           ELSE Lead_skip(p, AfterRead(p, env))]

\* Lead.update_from_sf_data, lines 57-64: the row is looked up again, or a new Lead made
\* (lines 57-59: without an Id nothing is stored and None is returned; the loop then
\* counts the record, lines 77-79 / 134-136)
Lead_load(db, p) ==
    LET k == Lead_get_by_sf_id(db.leads, p.recs[p.i].Id)
    IN [db |-> db,
        p |-> IF p.recs[p.i].Id = NoId
              THEN [p EXCEPT
                      !.created = IF p.existing = 0 THEN @ + 1 ELSE @,
                      !.updated = IF p.existing # 0 THEN @ + 1 ELSE @,
                      !.existing = 0, !.lead = 0, !.snap = <<>>,
                      !.i = @ + 1,
                      !.pc = IF p.i < Len(p.recs) THEN "lead_lookup" ELSE "lead_finish"]
              ELSE [p EXCEPT !.lead = k,
                             !.snap = IF k = 0 THEN <<>> ELSE <<db.leads[k]>>,
                             !.pc = "lead_save"]]

\* as Lead_updated_row, but the row that is there keeps its values
Lead_kept_row(cur, snap, sf_data) == cur

\* Lead.update_from_sf_data, lines 66-90, on a loaded row: the commit writes the
\* attributes that differ from the loaded ones (is_deleted was loaded False)
Lead_updated_row(cur, snap, sf_data) ==
    [cur EXCEPT !.val = IF sf_data.val # snap.val THEN sf_data.val ELSE cur.val]

\* Lead.update_from_sf_data, lines 64-90, on a new row
Lead_new_row(sf_data) ==
    [sf_id |-> sf_data.Id, val |-> sf_data.val, is_deleted |-> FALSE]

\* Lead.update_from_sf_data, line 90, and the loop's counting and except clause
Lead_save(db, p, env) ==
    LET sf_lead == p.recs[p.i]
        res == IF p.lead = 0
               THEN InsertRow(db.leads, Lead_new_row(sf_lead), CanCommit(p, env))
               ELSE UpdateRow(db.leads, p.lead,
                              Lead_updated_row(db.leads[p.lead], p.snap[1], sf_lead),
                              CanCommit(p, env))
    IN [db |-> [db EXCEPT !.leads = res.rows],
        p |-> IF res.ok
              THEN [p EXCEPT
                      !.created = IF p.existing = 0 THEN @ + 1 ELSE @,
                      !.updated = IF p.existing # 0 THEN @ + 1 ELSE @,
                      !.existing = 0, !.lead = 0, !.snap = <<>>,
                      !.i = @ + 1,
                      !.pc = IF p.i < Len(p.recs) THEN "lead_lookup" ELSE "lead_finish"]
              ELSE Lead_skip(p, TRUE)]

\* as Lead_completed_entry, but every fetched record is logged as created
Lead_entry_all_created(entry, p, t) ==
    [entry EXCEPT !.status = "completed", !.end_time = t,
                  !.records_processed = p.processed, !.records_created = p.processed,
                  !.records_updated = p.updated, !.records_deleted = 0]

\* sync_leads, lines 31-38: the entry as saved on success
Lead_completed_entry(entry, p, t) ==
    [entry EXCEPT !.status = "completed", !.end_time = t,
                  !.records_processed = p.processed, !.records_created = p.created,
                  !.records_updated = p.updated, !.records_deleted = 0]

\* sync_leads, lines 31-41
Lead_finish(db, p, t, env) ==
    IF CanCommit(p, env)
    THEN [db |-> [db EXCEPT !.sync_logs[p.log] = Lead_completed_entry(@, p, t)],
          p |-> Returned(p, "result")]
    ELSE [db |-> db, p |-> [p EXCEPT !.pc = "lead_fail", !.broken = TRUE,
                                     !.other_err = @ \/ Injected(env)]]

\* mutant: the handler saves no message
FailedEntryNoMessage(entry, t) ==
    [entry EXCEPT !.status = "failed", !.end_time = t]

\* mutant: the handler forgets the end time
FailedEntryNoEnd(entry, t) ==
    [entry EXCEPT !.status = "failed", !.error_message = "error"]

\* lines 45-47 / 90-92: the entry as saved by the except clause
FailedEntry(entry, t) ==
    [entry EXCEPT !.status = "failed", !.error_message = "error", !.end_time = t]

\* sync_leads, lines 43-49: the except clause saves the entry and re-raises
Lead_fail(db, p, t, env) ==
    [db |-> IF CanCommit(p, env)
            THEN [db EXCEPT !.sync_logs[p.log] = FailedEntry(@, t)]
            ELSE db,
     p |-> Returned([p EXCEPT !.other_err = @ \/ Injected(env)], "raised")]

\* -------------------------------------------------------- SyncService ----
\* sync_object, lines 52-70: the registered object is found, the log entry created
Obj_begin(db, p, sync_type, t, env) ==
    IF ~db.registered
    THEN [db |-> db,
          p |-> Returned([p EXCEPT !.svc = "obj", !.sync_type = sync_type], "None")]
    ELSE IF CanCommit(p, env)
    THEN [db |-> [db EXCEPT !.sync_logs = Append(@, NewSyncLog(ObjType, sync_type, t))],
          p |-> [p EXCEPT !.svc = "obj", !.sync_type = sync_type,
                          !.pc = "obj_sync", !.log = Len(db.sync_logs) + 1]]
    ELSE [db |-> db,
          p |-> Returned([p EXCEPT !.svc = "obj", !.sync_type = sync_type,
                                   !.other_err = TRUE], "raised")]

\* an exception leaves _perform_*_sync for the except clause of sync_object
Obj_raise(p, broken, env) ==
    [p EXCEPT !.pc = "obj_fail", !.broken = broken, !.other_err = @ \/ Injected(env),
              !.existing = 0, !.snap = <<>>]

\* where the loops of a pass continue after item i of the current list
Obj_after_updates(p) ==
    IF Len(p.dels) > 0 THEN [p EXCEPT !.i = 1, !.pc = "obj_del_lookup"]
    ELSE [p EXCEPT !.i = 0, !.pc = "obj_counts"]

Obj_next_record(p) ==
    IF p.i < Len(p.recs) THEN [p EXCEPT !.i = @ + 1, !.pc = "obj_lookup"]
    ELSE Obj_after_updates(p)

Obj_next_deleted(p) ==
    IF p.i < Len(p.dels) THEN [p EXCEPT !.i = @ + 1, !.pc = "obj_del_lookup"]
    ELSE [p EXCEPT !.i = 0, !.pc = "obj_counts"]

\* lines 101-103 / 167-169: records_processed is saved, then the loops start
Obj_loop(db, p, recs, dels, env) ==
    LET q == [p EXCEPT !.recs = recs, !.dels = dels, !.processed = Len(recs) + Len(dels)]
    IN IF CanCommit(p, env)
       THEN [db |-> [db EXCEPT !.sync_logs[p.log].records_processed = q.processed],
             p |-> IF Len(recs) > 0 THEN [q EXCEPT !.i = 1, !.pc = "obj_lookup"]
                   ELSE Obj_after_updates(q)]
       ELSE [db |-> db, p |-> Obj_raise(q, TRUE, env)]

\* mutant: a full pass flags the rows of the records the remote source no longer lists
Obj_full_with_deletions(db, p, rem, env) ==
    LET Gone(id) == ~rem[id].present
    IN Obj_loop(db, [p EXCEPT !.fetch_err = ~env.remote_ok],
                Svc_get_all_records(rem, env.remote_ok), SelectSeq(IdOrder, Gone), env)

\* _perform_full_sync, lines 98-110
Obj_perform_full_sync(db, p, rem, env) ==
    Obj_loop(db, [p EXCEPT !.fetch_err = ~env.remote_ok],
             Svc_get_all_records(rem, env.remote_ok), <<>>, env)

\* _perform_incremental_sync, lines 150-173
Obj_perform_incremental_sync(db, p, rem, t, env) ==
    LET last_sync == get_latest_successful_sync(db.sync_logs, ObjType, env.tie)
    IN IF ~CanRead(p, env)
       THEN [db |-> db, p |-> Obj_raise(p, AfterRead(p, env), env)]
       ELSE IF last_sync = 0 \/ db.last_sync_time = NoTime
       THEN Obj_perform_full_sync(db, p, rem, env)
       ELSE Obj_loop(db,
                     [p EXCEPT !.fetch_err = ~env.remote_ok \/ ~env.del_ok,
                               !.watermark = db.last_sync_time,
                               !.baseline = db.sync_logs[last_sync].start_time],
                     Svc_get_updated_records(rem, db.last_sync_time, env.remote_ok),
                     Svc_get_deleted_records(rem, db.last_sync_time, t, env.del_ok),
                     env)

\* sync_object, lines 73-76
Obj_sync(db, p, rem, t, env) ==
    IF p.sync_type = "full"
    THEN Obj_perform_full_sync(db, p, rem, env)
    ELSE Obj_perform_incremental_sync(db, p, rem, t, env)

\* lines 113-116 / 176-179: existing_record = SalesforceRecord.get_by_sf_id(sf_id)
Obj_lookup(db, p, env) ==
    LET k == SalesforceRecord_get_by_sf_id(db.records, p.recs[p.i].Id)
    IN [db |-> db,
        p |-> IF CanRead(p, env)
              THEN [p EXCEPT !.existing = k,
                             !.snap = IF k = 0 THEN <<>> ELSE <<db.records[k]>>,
                             !.pc = "obj_save"]
              ELSE [Obj_raise(p, AfterRead(p, env), env) EXCEPT
                       !.skipped = @ + 1, !.other_err = p.other_err]]

\* as Obj_updated_row, but a row that is flagged is_deleted stays flagged
Obj_updated_row_still_deleted(cur, snap, sf_record, t) ==
    [cur EXCEPT !.data = IF sf_record.val # snap.data THEN sf_record.val ELSE cur.data,
                !.last_modified_date = IF t # snap.last_modified_date THEN t
                                       ELSE cur.last_modified_date]

\* lines 120-123 / 183-186: the commit writes the attributes that differ from the loaded ones
Obj_updated_row(cur, snap, sf_record, t) ==
    [cur EXCEPT !.data = IF sf_record.val # snap.data THEN sf_record.val ELSE cur.data,
                !.last_modified_date = IF t # snap.last_modified_date THEN t
                                       ELSE cur.last_modified_date,
                !.is_deleted = IF snap.is_deleted THEN FALSE ELSE cur.is_deleted]

\* lines 127-132 / 190-195
Obj_new_row(sf_record, t) ==
    [sf_id |-> sf_record.Id, data |-> sf_record.val,
     last_modified_date |-> t, is_deleted |-> FALSE]

\* lines 118-134 / 181-197: an exception of save leaves the loop and the function
Obj_save(db, p, t, env) ==
    LET sf_record == p.recs[p.i]
        res == IF p.existing = 0
               THEN InsertRow(db.records, Obj_new_row(sf_record, t), CanCommit(p, env))
               ELSE UpdateRow(db.records, p.existing,
                              Obj_updated_row(db.records[p.existing], p.snap[1], sf_record, t),
                              CanCommit(p, env))
        q == [p EXCEPT !.existing = 0, !.snap = <<>>]
    IN IF res.ok
       THEN [db |-> [db EXCEPT !.records = res.rows],
             p |-> Obj_next_record([q EXCEPT
                       !.created = IF p.existing = 0 THEN @ + 1 ELSE @,
                       !.updated = IF p.existing # 0 THEN @ + 1 ELSE @])]
       ELSE [db |-> db,
             p |-> [Obj_raise(p, TRUE, env) EXCEPT
                       !.skipped = @ + 1, !.other_err = p.other_err]]

\* as Obj_del_lookup, but an identifier that was in the list of updated records is
\* passed over
Obj_del_lookup_unless_updated(db, p) ==
    LET k == SalesforceRecord_get_by_sf_id(db.records, p.dels[p.i])
    IN [db |-> db,
        p |-> IF k = 0 \/ \E n \in 1..Len(p.recs) : p.recs[n].Id = p.dels[p.i]
              THEN Obj_next_deleted(p)
              ELSE [p EXCEPT !.existing = k, !.snap = <<db.records[k]>>,
                             !.pc = "obj_del_save"]]

\* lines 202-208: the deleted id is looked up; an unknown id is passed over
Obj_del_lookup(db, p) ==
    LET k == SalesforceRecord_get_by_sf_id(db.records, p.dels[p.i])
    IN [db |-> db,
        p |-> IF k = 0 THEN Obj_next_deleted(p)
              ELSE [p EXCEPT !.existing = k, !.snap = <<db.records[k]>>,
                             !.pc = "obj_del_save"]]

\* mutant: the marked row is not counted
Obj_del_save_uncounted(db, p, env) ==
    LET cur == db.records[p.existing]
        row == [cur EXCEPT !.is_deleted = IF p.snap[1].is_deleted THEN cur.is_deleted ELSE TRUE]
        res == UpdateRow(db.records, p.existing, row, CanCommit(p, env))
        q == [p EXCEPT !.existing = 0, !.snap = <<>>]
    IN IF res.ok
       THEN [db |-> [db EXCEPT !.records = res.rows], p |-> Obj_next_deleted(q)]
       ELSE [db |-> db, p |-> Obj_raise(p, TRUE, env)]

\* lines 209-212
Obj_del_save(db, p, env) ==
    LET cur == db.records[p.existing]
        row == [cur EXCEPT !.is_deleted = IF p.snap[1].is_deleted THEN cur.is_deleted ELSE TRUE]
        res == UpdateRow(db.records, p.existing, row, CanCommit(p, env))
        q == [p EXCEPT !.existing = 0, !.snap = <<>>]
    IN IF res.ok
       THEN [db |-> [db EXCEPT !.records = res.rows],
             p |-> Obj_next_deleted([q EXCEPT !.deleted = @ + 1])]
       ELSE [db |-> db, p |-> Obj_raise(p, TRUE, env)]

\* lines 136-139 / 214-218: the counters are saved
Obj_counts(db, p, env) ==
    IF CanCommit(p, env)
    THEN [db |-> [db EXCEPT !.sync_logs[p.log].records_created = p.created,
                            !.sync_logs[p.log].records_updated = p.updated,
                            !.sync_logs[p.log].records_deleted = p.deleted],
          p |-> [p EXCEPT !.pc = "obj_complete"]]
    ELSE [db |-> db, p |-> Obj_raise(p, TRUE, env)]

\* sync_object, lines 78-81
Obj_complete(db, p, t, env) ==
    IF CanCommit(p, env)
    THEN [db |-> [db EXCEPT !.sync_logs[p.log].status = "completed",
                            !.sync_logs[p.log].end_time = t],
          p |-> [p EXCEPT !.pc = "obj_touch"]]
    ELSE [db |-> db, p |-> Obj_raise(p, TRUE, env)]

\* sync_object, lines 83-87: obj.last_sync_time = utcnow(); obj.save(); return result
Obj_touch(db, p, t, env) ==
    IF CanCommit(p, env)
    THEN [db |-> [db EXCEPT !.last_sync_time = t], p |-> Returned(p, "result")]
    ELSE [db |-> db, p |-> Obj_raise(p, TRUE, env)]

\* mutant: the except clause stamps the object as synchronised
Obj_fail_touching(db, p, t, env) ==
    IF CanCommit(p, env)
    THEN [db |-> [db EXCEPT !.sync_logs[p.log] = FailedEntry(@, t), !.last_sync_time = t],
          p |-> Returned(p, "None")]
    ELSE [db |-> db, p |-> Returned([p EXCEPT !.other_err = @ \/ Injected(env)], "raised")]

\* as Obj_fail, but the rows the pass inserted are taken back
Obj_fail_rolling_back(db, p, t, env) ==
    IF CanCommit(p, env)
    THEN [db |-> [db EXCEPT !.sync_logs[p.log] = FailedEntry(@, t),
                            !.records = SubSeq(@, 1, Len(@) - p.created)],
          p |-> Returned(p, "None")]
    ELSE [db |-> db, p |-> Returned([p EXCEPT !.other_err = @ \/ Injected(env)], "raised")]

\* sync_object, lines 88-94: the except clause saves the entry and returns None; an
\* exception of that save leaves sync_object
Obj_fail(db, p, t, env) ==
    IF CanCommit(p, env)
    THEN [db |-> [db EXCEPT !.sync_logs[p.log] = FailedEntry(@, t)],
          p |-> Returned(p, "None")]
    ELSE [db |-> db, p |-> Returned([p EXCEPT !.other_err = @ \/ Injected(env)], "raised")]

\* ------------------------------------------------------------- a step ----
\* the next step of a started pass
Step(db, p, rem, t, env) ==
    CASE p.pc = "lead_sync" -> Lead_sync(db, p, rem, env)
      [] p.pc = "lead_lookup" -> Lead_lookup(db, p, env)
      [] p.pc = "lead_load" -> Lead_load(db, p)
      [] p.pc = "lead_save" -> Lead_save(db, p, env)
      [] p.pc = "lead_finish" -> Lead_finish(db, p, t, env)
      [] p.pc = "lead_fail" -> Lead_fail(db, p, t, env)
      [] p.pc = "obj_sync" -> Obj_sync(db, p, rem, t, env)
      [] p.pc = "obj_lookup" -> Obj_lookup(db, p, env)
      [] p.pc = "obj_save" -> Obj_save(db, p, t, env)
      [] p.pc = "obj_del_lookup" -> Obj_del_lookup(db, p)
      [] p.pc = "obj_del_save" -> Obj_del_save(db, p, env)
      [] p.pc = "obj_counts" -> Obj_counts(db, p, env)
      [] p.pc = "obj_complete" -> Obj_complete(db, p, t, env)
      [] p.pc = "obj_touch" -> Obj_touch(db, p, t, env)
      [] p.pc = "obj_fail" -> Obj_fail(db, p, t, env)
      [] OTHER -> [db |-> db, p |-> p]

\* sync_leads(sync_type) / sync_object(sync_type=...) up to the saved log entry
Begin(db, svc, sync_type, t, env) ==
    IF svc = "lead" THEN Lead_begin(db, IdlePass, sync_type, t, env)
    ELSE Obj_begin(db, IdlePass, sync_type, t, env)

\* ------------------------------------------------------------- actions ---
DB == [leads |-> leads, records |-> records, registered |-> registered,
       last_sync_time |-> last_sync_time, sync_logs |-> sync_logs]

\* a failure costs one of the injected faults
Cost(env) ==
    (IF env.remote_ok THEN 0 ELSE 1) + (IF env.del_ok THEN 0 ELSE 1)
    + (IF env.store_ok THEN 0 ELSE 1) + (IF env.read = "ok" THEN 0 ELSE 1)

Inject(env) ==
    /\ faults + Cost(env) <= MaxFaults
    /\ faults' = faults + Cost(env)

Commit(r, k) ==
    /\ leads' = r.db.leads
    /\ records' = r.db.records
    /\ last_sync_time' = r.db.last_sync_time
    /\ registered' = r.db.registered
    /\ sync_logs' = r.db.sync_logs
    /\ pass' = [pass EXCEPT ![k] = r.p]

Workers == <<"w1", "w2">>       \* the request handlers (threads) of the web process
WorkerSet == {Workers[n] : n \in 1..Len(Workers)}

Running == {w \in WorkerSet : pass[w].pc \notin {"idle", "done"}}
At(pc) == {w \in WorkerSet : pass[w].pc = pc}

\* the handler that takes the next request: the first one that is free
FreeWorker == Workers[CHOOSE n \in 1..Len(Workers) :
                         /\ Workers[n] \notin Running
                         /\ \A m \in 1..(n - 1) : Workers[m] \in Running]

CanStart ==
    /\ passes < MaxPasses
    /\ Cardinality(Running) < lanes

Frame ==
    UNCHANGED <<now, remote, ticks, remote_ops, twin, lanes, request_types, AuthVars>>

\* one step of the pass handler w runs, under the inputs env
StepOn(w, env) ==
    /\ Inject(env)
    /\ Commit(Step(DB, pass[w], remote, now, env), w)
    /\ UNCHANGED passes
    /\ Frame

\* the inputs of a step that commits
Commits == {Env(TRUE, TRUE, store_ok, "ok", "low") : store_ok \in BOOLEAN}

\* the inputs of a step that queries
Queries == {Env(TRUE, TRUE, TRUE, read, "low") : read \in Reads}

\* ------------------------------------------------------ authentication ---
NoState == 0          \* a callback without a state parameter
Forged == MaxLogins + 2   \* a state value that /api/auth/login never generated
NoSession == 0        \* a request without sf_session_id in its session cookie

\* the session ids a client can present: none, or one a callback has put in a cookie
SessionIds == 0..minted

Answer(route, arg, status, message) ==
    [route |-> route, arg |-> arg, status |-> status, message |-> message]

IdleCallback == [pc |-> "idle", state |-> NoState]

\* the query string of a callback that has passed the checks with the state value
Passed(state) == [state |-> state, code |-> TRUE, error |-> FALSE]

\* the query string of a callback request: any state value issued so far, a forged
\* one or none; with or without a code; with or without an error
CallbackArgs ==
    [state : (0..issued) \cup {Forged}, code : BOOLEAN, error : BOOLEAN]

\* oauth_callback, lines 245-275: the checks before the state is used; <<>> when
\* the request passes them
oauth_callback_check(args, states) ==
    IF args.error THEN <<Answer("callback", args, 400, "OAuth error")>>
    ELSE IF ~args.code
    THEN <<Answer("callback", args, 400, "Missing authorization code")>>
    ELSE IF args.state = NoState
    THEN <<Answer("callback", args, 400, "Missing state parameter")>>
    ELSE IF args.state \notin states
    THEN <<Answer("callback", args, 400, "Invalid state parameter")>>
    ELSE <<>>

\* as get_current_sf_service, but the session id is not looked up
get_sf_service_for_anyone(tokens, session_id, token_ok) == token_ok

\* get_current_sf_service, lines 392-408: a service, unless the session holds no id,
\* the id has no token, or Salesforce refuses the token
get_current_sf_service(tokens, session_id, token_ok) ==
    /\ session_id # NoSession
    /\ session_id \in tokens
    /\ token_ok

\* requests that are answered are counted with the callbacks still in flight
Answering == Len(answers) + Cardinality({w \in WorkerSet : callback[w].pc # "idle"})

SyncFrame ==
    UNCHANGED <<now, remote, leads, records, last_sync_time, registered, sync_logs, pass,
                faults, ticks, remote_ops, passes, lanes, request_types, twin>>

\* GET /api/auth/login, lines 188-223: a new state value is stored
SalesforceLogin ==
    /\ issued < MaxLogins
    /\ issued' = issued + 1
    /\ oauth_states' = oauth_states \cup {issued + 1}
    /\ UNCHANGED <<user_tokens, minted, callback, answers>>
    /\ SyncFrame

\* GET /api/auth/callback, lines 232-275: the request is refused, or goes on with
\* its state
OauthCallback ==
    \E w \in WorkerSet, args \in CallbackArgs :
        LET refused == oauth_callback_check(args, oauth_states)
        IN /\ callback[w].pc = "idle"
           /\ Answering < MaxAnswers
           /\ IF refused # <<>>
              THEN answers' = Append(answers, refused[1]) /\ UNCHANGED callback
              ELSE /\ callback' = [callback EXCEPT ![w] = [pc |-> "take",
                                                          state |-> args.state]]
                   /\ UNCHANGED answers
           /\ UNCHANGED <<oauth_states, user_tokens, issued, minted>>
           /\ SyncFrame

\* as OauthTake, but the state stays stored
OauthTakeKeeping ==
    \E w \in WorkerSet :
        /\ callback[w].pc = "take"
        /\ callback[w].state \in oauth_states
        /\ callback' = [callback EXCEPT ![w].pc = "exchange"]
        /\ UNCHANGED <<oauth_states, answers, user_tokens, issued, minted>>
        /\ SyncFrame

\* lines 277-280: state_data = oauth_states[state]; del oauth_states[state].  A
\* KeyError (another callback took the state since the check) goes to the except
\* clause, lines 316-319
OauthTake ==
    \E w \in WorkerSet :
        /\ callback[w].pc = "take"
        /\ IF callback[w].state \in oauth_states
           THEN /\ oauth_states' = oauth_states \ {callback[w].state}
                /\ callback' = [callback EXCEPT ![w].pc = "exchange"]
                /\ UNCHANGED answers
           ELSE /\ answers' = Append(answers, Answer("callback", Passed(callback[w].state),
                                                     302, "auth=error: state"))
                /\ callback' = [callback EXCEPT ![w] = IdleCallback]
                /\ UNCHANGED oauth_states
        /\ UNCHANGED <<user_tokens, issued, minted>>
        /\ SyncFrame

\* lines 282-314: the code is exchanged; a token is stored under a new session id,
\* or the exchange handed back nothing (500), or the answer of Salesforce lacked a
\* field (except clause)
OauthExchange ==
    \E w \in WorkerSet, token \in {"token", "none", "raised"} :
        /\ callback[w].pc = "exchange"
        /\ IF token = "token"
           THEN /\ minted' = minted + 1
                /\ user_tokens' = user_tokens \cup {minted + 1}
                /\ answers' = Append(answers, Answer("callback", Passed(callback[w].state),
                                                     302, "auth=success"))
           ELSE /\ answers' = Append(answers,
                                     IF token = "none"
                                     THEN Answer("callback", Passed(callback[w].state), 500,
                                                 "Failed to exchange code for token")
                                     ELSE Answer("callback", Passed(callback[w].state), 302,
                                                 "auth=error: access_token"))
                /\ UNCHANGED <<minted, user_tokens>>
        /\ callback' = [callback EXCEPT ![w] = IdleCallback]
        /\ UNCHANGED <<oauth_states, issued>>
        /\ SyncFrame

\* POST /api/auth/logout, lines 370-383
Logout ==
    \E session_id \in SessionIds :
        /\ session_id \in user_tokens
        /\ user_tokens' = user_tokens \ {session_id}
        /\ UNCHANGED <<oauth_states, issued, minted, callback, answers>>
        /\ SyncFrame

\* POST /api/sync/leads -> LeadSyncService.sync_leads: the request of a session that
\* has a service; the value of the body goes to the service as it is
SyncLeads ==
    \E sync_type \in request_types, env \in Commits :
        /\ \E session_id \in SessionIds :
              get_current_sf_service(user_tokens, session_id, TRUE)
        /\ CanStart
        /\ Inject(env)
        /\ Commit(Begin(DB, "lead", sync_type, now, env), FreeWorker)
        /\ passes' = passes + 1
        /\ Frame

\* POST /api/sync/object/<id>, /api/sync/all, the scheduler job -> SyncService.sync_object;
\* the routes answer 400 to a type that is no mode, the job passes 'incremental'
SyncObject ==
    \E sync_type \in request_types, env \in Commits :
        /\ sync_type \in SyncTypes
        /\ CanStart
        /\ Inject(env)
        /\ Commit(Begin(DB, "obj", sync_type, now, env), FreeWorker)
        /\ passes' = passes + 1
        /\ Frame

LeadFetch ==
    \E w \in At("lead_sync"), remote_ok \in BOOLEAN, read \in Reads, tie \in Ties :
        /\ read # "ok" => pass[w].sync_type # "full"
        /\ StepOn(w, Env(remote_ok, TRUE, TRUE, read, tie))

LeadLookup == \E w \in At("lead_lookup"), env \in Queries : StepOn(w, env)

LeadLoad == \E w \in At("lead_load") : StepOn(w, CalmEnv)

LeadSave == \E w \in At("lead_save"), env \in Commits : StepOn(w, env)

LeadFinish == \E w \in At("lead_finish"), env \in Commits : StepOn(w, env)

LeadFail == \E w \in At("lead_fail"), env \in Commits : StepOn(w, env)

ObjFetch ==
    \E w \in At("obj_sync"), remote_ok \in BOOLEAN, del_ok \in BOOLEAN,
       store_ok \in BOOLEAN, read \in Reads, tie \in Ties :
        /\ read # "ok" => pass[w].sync_type # "full"
        /\ StepOn(w, Env(remote_ok, del_ok, store_ok, read, tie))

ObjLookup == \E w \in At("obj_lookup"), env \in Queries : StepOn(w, env)

ObjSave == \E w \in At("obj_save"), env \in Commits : StepOn(w, env)

ObjDelLookup == \E w \in At("obj_del_lookup") : StepOn(w, CalmEnv)

ObjDelSave == \E w \in At("obj_del_save"), env \in Commits : StepOn(w, env)

ObjCounts == \E w \in At("obj_counts"), env \in Commits : StepOn(w, env)

ObjComplete == \E w \in At("obj_complete"), env \in Commits : StepOn(w, env)

ObjTouch == \E w \in At("obj_touch"), env \in Commits : StepOn(w, env)

ObjFail == \E w \in At("obj_fail"), env \in Commits : StepOn(w, env)

\* The clock and the remote source are read at the start of a pass, at its fetch and
\* at its commits.  The environment moves between requests, and in the middle of a
\* pass once its records are reconciled (after its fetch, before its final writes).
EnvPoint == \A w \in Running : pass[w].pc \in {"lead_finish", "obj_counts"}

\* time passes
Tick ==
    /\ EnvPoint
    /\ ticks < MaxTicks
    /\ ticks' = ticks + 1
    /\ now' = now + TickMinutes
    /\ UNCHANGED <<remote, leads, records, last_sync_time, registered, sync_logs, pass,
                   faults, remote_ops, passes, lanes, request_types, twin,
                   AuthVars>>

\* a user of the Salesforce org edits a record
RemoteWrite ==
    \E id \in Ids :
        /\ EnvPoint
        /\ remote_ops < MaxRemoteOps
        /\ remote[id].present
        /\ remote' = [remote EXCEPT ![id].val = @ + 1, ![id].lm = now]
        /\ remote_ops' = remote_ops + 1
        /\ UNCHANGED <<now, leads, records, last_sync_time, registered, sync_logs, pass,
                       faults, ticks, passes, lanes, request_types, twin,
                   AuthVars>>

\* a user of the Salesforce org deletes a record
RemoteDelete ==
    \E id \in Ids :
        /\ EnvPoint
        /\ remote_ops < MaxRemoteOps
        /\ remote[id].present
        /\ remote' = [remote EXCEPT ![id].present = FALSE, ![id].deleted_at = now]
        /\ remote_ops' = remote_ops + 1
        /\ UNCHANGED <<now, leads, records, last_sync_time, registered, sync_logs, pass,
                       faults, ticks, passes, lanes, request_types, twin,
                   AuthVars>>

\* DELETE /api/objects/<id>: obj.delete(); the relationship SalesforceObject.records
\* cascades ('all, delete-orphan'), so the commit removes the object's records with it
DeleteObject ==
    \E env \in Commits :
        /\ Running = {}
        /\ registered
        /\ Inject(env)
        /\ registered' = ~env.store_ok
        /\ records' = IF env.store_ok THEN <<>> ELSE records
        /\ last_sync_time' = IF env.store_ok THEN NoTime ELSE last_sync_time
        /\ UNCHANGED <<now, remote, leads, sync_logs, pass, ticks, remote_ops, passes,
                       lanes, request_types, twin,
                   AuthVars>>

\* -------------------------------------------------------- log queries ---
\* a reader calls SyncLog.get_latest_successful_sync; twin keeps what it was handed
GetLatestSuccessfulSync ==
    \E object_type \in {LeadType, ObjType}, tie \in Ties :
        /\ twin = <<>>
        /\ twin' = <<[kind |-> "latest", object_type |-> object_type,
                      found |-> get_latest_successful_sync(sync_logs, object_type, tie)]>>
        /\ UNCHANGED <<now, remote, leads, records, last_sync_time, registered, sync_logs,
                       pass, faults, ticks, remote_ops, passes, lanes, request_types,
                   AuthVars>>

\* a reader calls SyncLog.get_recent_logs, and once more with the same arguments
GetRecentLogs ==
    \E object_type \in {LeadType, ObjType}, limit \in 1..MaxLimit, tie \in Ties :
        /\ \/ twin = <<>>
           \/ /\ Len(twin) = 1
              /\ twin[1].kind = "recent"
              /\ twin[1].object_type = object_type
              /\ twin[1].limit = limit
        /\ twin' = Append(twin, [kind |-> "recent", object_type |-> object_type,
                                 limit |-> limit,
                                 rows |-> get_recent_logs(sync_logs, object_type, limit, tie)])
        /\ UNCHANGED <<now, remote, leads, records, last_sync_time, registered, sync_logs,
                       pass, faults, ticks, remote_ops, passes, lanes, request_types,
                   AuthVars>>

\* ------------------------------------------------- uninterrupted passes --
\* the inputs of step n of an uninterrupted pass: the step plan.at fails
PlanEnv(plan, n) ==
    IF plan.at # n THEN Env(TRUE, TRUE, TRUE, "ok", plan.tie)
    ELSE Env(plan.kind # "remote", plan.kind # "del", plan.kind # "store",
             IF plan.kind \in {"fail", "abort"} THEN plan.kind ELSE "ok", plan.tie)

\* a remote call fails at step 2, where a pass fetches; a commit or a query at any step
Plans ==
    {[at |-> 0, kind |-> "none", tie |-> "low"]}
    \cup [at : {2}, kind : {"remote", "del"}, tie : {"low"}]
    \cup [at : 1..MaxPlanStep, kind : {"store", "fail", "abort"}, tie : {"low"}]

\* the remote call of a pass is its step 2
FetchPlan(remote_ok) ==
    [at |-> IF remote_ok THEN 0 ELSE 2, kind |-> "remote", tie |-> "low"]

RECURSIVE RunFrom(_, _, _, _, _)
\* the steps of a started pass, from step n to its return
RunFrom(r, rem, t, plan, n) ==
    IF r.p.pc = "done" THEN r
    ELSE RunFrom(Step(r.db, r.p, rem, t, PlanEnv(plan, n)), rem, t, plan, n + 1)

\* sync_leads(sync_type) / sync_object(sync_type=...) from call to return
RunPass(db, svc, sync_type, rem, t, plan) ==
    RunFrom(Begin(db, svc, sync_type, t, PlanEnv(plan, 1)), rem, t, plan, 2)

\* what a pass leaves behind and hands back
Outcome(r) ==
    [leads |-> r.db.leads, records |-> r.db.records, last_sync_time |-> r.db.last_sync_time,
     result |-> r.p.result,
     status |-> IF r.p.log = 0 THEN "none" ELSE r.db.sync_logs[r.p.log].status,
     processed |-> r.p.processed, created |-> r.p.created, updated |-> r.p.updated,
     deleted |-> r.p.deleted, skipped |-> r.p.skipped, fetch_err |-> r.p.fetch_err]

Services == {"lead", "obj"}

TypeOf(svc) == IF svc = "lead" THEN LeadType ELSE ObjType

PlanCost(plan) == IF plan.at = 0 THEN 0 ELSE 1

\* a pass runs from call to return with no other request in between
RunSync ==
    \E svc \in Services, sync_type \in SyncTypes, plan \in Plans :
        LET r == RunPass(DB, svc, sync_type, remote, now, plan)
        IN /\ twin = <<>>
           /\ passes < MaxPasses
           /\ faults + PlanCost(plan) <= MaxFaults
           /\ faults' = faults + PlanCost(plan)
           /\ Commit(r, FreeWorker)
           /\ passes' = passes + 1
           /\ Frame

\* POST /api/sync/leads from the request to its answer, lines 544-577: 401 without a
\* service, otherwise the pass runs to its end (here with no failure)
SyncLeadsRoute ==
    \E session_id \in SessionIds, token_ok \in BOOLEAN, sync_type \in request_types :
        IF get_current_sf_service(user_tokens, session_id, token_ok)
        THEN /\ passes < MaxPasses
             /\ Commit(RunPass(DB, "lead", sync_type, remote, now,
                               [at |-> 0, kind |-> "none", tie |-> "low"]), FreeWorker)
             /\ passes' = passes + 1
             /\ UNCHANGED faults
             /\ Frame
        ELSE /\ Answering < MaxAnswers
             /\ answers' = Append(answers,
                                  Answer("sync_leads", session_id, 401,
                                         "Please authenticate with Salesforce first"))
             /\ UNCHANGED <<oauth_states, user_tokens, issued, minted, callback>>
             /\ SyncFrame

\* the same state is synchronised once in each mode, under the same inputs (a failure
\* hits a step that both modes take: not the query for the baseline, step 2)
CompareModes ==
    \E svc \in Services, plan \in Plans :
        /\ twin = <<>>
        /\ faults + PlanCost(plan) <= MaxFaults
        /\ ~(plan.at = 2 /\ plan.kind \in {"fail", "abort"})
        /\ twin' = <<[kind |-> "modes", svc |-> svc,
                      baseline |-> CompletedOf(sync_logs, TypeOf(svc)) # {},
                      before |-> [leads |-> leads, records |-> records],
                      full |-> Outcome(RunPass(DB, svc, "full", remote, now, plan)),
                      incremental |-> Outcome(RunPass(DB, svc, "incremental", remote, now,
                                                      plan))]>>
        /\ UNCHANGED <<now, remote, leads, records, last_sync_time, registered, sync_logs,
                       pass, faults, ticks, remote_ops, passes, lanes, request_types,
                   AuthVars>>

\* a full pass runs twice in succession; the remote call of either run may fail
FullTwice ==
    \E svc \in Services, ok1 \in BOOLEAN, ok2 \in BOOLEAN :
        LET r1 == RunPass(DB, svc, "full", remote, now, FetchPlan(ok1))
            r2 == RunPass(r1.db, svc, "full", remote, now, FetchPlan(ok2))
        IN /\ twin = <<>>
           /\ faults + PlanCost(FetchPlan(ok1)) + PlanCost(FetchPlan(ok2)) <= MaxFaults
           /\ twin' = <<[kind |-> "twice", svc |-> svc,
                         n |-> Len(RemoteAll(remote)),
                         first |-> Outcome(r1), second |-> Outcome(r2)]>>
           /\ UNCHANGED <<now, remote, leads, records, last_sync_time, registered,
                          sync_logs, pass, faults, ticks, remote_ops, passes, lanes,
                          request_types,
                   AuthVars>>

\* the lists the remote source may hand back: any records of the object, in any
\* order, an Id may come twice or be empty
BatchVals == {1, 2}

BatchRecords == [Id : Ids \cup {NoId}, val : BatchVals, lm : {0}]

RECURSIVE SeqsUpTo(_, _)
SeqsUpTo(S, n) ==
    IF n = 0 THEN {<<>>}
    ELSE LET shorter == SeqsUpTo(S, n - 1)
         IN shorter \cup {Append(q, x) : q \in shorter, x \in S}

Batches == SeqsUpTo(BatchRecords, MaxBatch)

DeletedLists == SeqsUpTo(Ids, MaxDeleted)

\* a query or a commit fails at one step of the loop
BatchPlans ==
    {[at |-> 0, kind |-> "none", tie |-> "low"]}
    \cup [at : 3..MaxPlanStep, kind : {"store", "fail"}, tie : {"low"}]

\* sync_leads / sync_object from call to return when the remote calls hand back recs
\* and dels (step 2 is the call; SyncService asks for deletions in the incremental
\* mode only, lines 199-201)
RunOn(db, svc, sync_type, recs, dels, rem, t, plan) ==
    LET r0 == Begin(db, svc, sync_type, t, CalmEnv)
        r1 == IF svc = "lead"
              THEN [db |-> r0.db, p |-> Lead_loop(r0.p, recs)]
              ELSE Obj_loop(r0.db, r0.p, recs, dels, CalmEnv)
    IN RunFrom(r1, rem, t, plan, 3)

\* a pass runs from call to return on the lists it was handed
RunBatch ==
    /\ twin = <<>>
    /\ \E svc \in Services, sync_type \in SyncTypes, recs \in Batches,
          dels \in DeletedLists, plan \in BatchPlans :
          /\ sync_type = "incremental" =>
                /\ svc = "obj"
                /\ last_sync_time # NoTime
                /\ CompletedOf(sync_logs, ObjType) # {}
          /\ sync_type = "full" => dels = <<>>
          /\ LET r == RunOn(DB, svc, sync_type, recs, dels, remote, now, plan)
             IN twin' = <<[kind |-> "batch", svc |-> svc, sync_type |-> sync_type,
                           recs |-> recs, dels |-> dels,
                           before |-> [leads |-> leads, records |-> records],
                           out |-> Outcome(r),
                           entry |-> IF r.p.log = 0 THEN <<>>
                                     ELSE <<r.db.sync_logs[r.p.log]>>]>>
    /\ UNCHANGED <<now, remote, leads, records, last_sync_time, registered, sync_logs,
                   pass, faults, ticks, remote_ops, passes, lanes, request_types,
                   AuthVars>>

\* rows of the leads table that were soft-deleted before the process started
InitLeadStores == {<<>>, <<[sf_id |-> "L1", val |-> 0, is_deleted |-> TRUE]>>}

RemoteRecord(present, deleted_at) ==
    [present |-> present, val |-> 1, lm |-> 0, deleted_at |-> deleted_at]

\* the Salesforce org at the start: both records present
AllPresent == [id \in Ids |-> RemoteRecord(TRUE, NoTime)]

\* nothing was synchronised yet
Fresh ==
    [remote |-> AllPresent, records |-> <<>>, last_sync_time |-> NoTime, sync_logs |-> <<>>]

\* what one full pass of SyncService left behind (the state of Spec after SyncObject
\* "full" ran to its end), and L2 deleted at the remote source since
Synced ==
    [remote |-> [AllPresent EXCEPT !["L2"] = RemoteRecord(FALSE, 0)],
     records |-> <<[sf_id |-> "L1", data |-> 1, last_modified_date |-> 0, is_deleted |-> FALSE],
                   [sf_id |-> "L2", data |-> 1, last_modified_date |-> 0, is_deleted |-> FALSE]>>,
     last_sync_time |-> 0,
     sync_logs |-> <<[NewSyncLog(ObjType, "full", 0) EXCEPT
                        !.status = "completed", !.end_time = 0,
                        !.records_processed = 2, !.records_created = 2]>>]

\* as Synced, but L2 was created at the remote source after that pass and deleted
\* again: no pass has seen it
Unseen == [Synced EXCEPT !.records = SubSeq(@, 1, 1)]

\* as Synced after an incremental pass marked the row of L2, and L2 restored at the
\* remote source since
Flagged == [Synced EXCEPT !.remote = AllPresent, !.records[2].is_deleted = TRUE]

\* nobody has logged in
LoggedOut ==
    /\ oauth_states = {}
    /\ user_tokens = {}
    /\ issued = 0
    /\ minted = 0
    /\ callback = [w \in WorkerSet |-> IdleCallback]
    /\ answers = <<>>

\* one OAuth flow has run to its end: the state 1 was issued and used, the session 1
\* holds a token
LoggedIn ==
    /\ oauth_states = {}
    /\ user_tokens = {1}
    /\ issued = 1
    /\ minted = 1
    /\ callback = [w \in WorkerSet |-> IdleCallback]
    /\ answers = <<Answer("callback", Passed(1), 302, "auth=success")>>

InitStores(n, types, starts, lead_stores) ==
    /\ now = 0
    /\ \E s \in starts :
          /\ remote = s.remote
          /\ records = s.records
          /\ last_sync_time = s.last_sync_time
          /\ sync_logs = s.sync_logs
          /\ registered = TRUE
          /\ leads \in (IF s = Fresh THEN lead_stores ELSE {<<>>})
    /\ pass = [w \in WorkerSet |-> IdlePass]
    /\ faults = 0
    /\ ticks = 0
    /\ remote_ops = 0
    /\ passes = 0
    /\ lanes = n
    /\ request_types = types
    /\ twin = <<>>

\* the stores at the start, and a client that is logged in
InitWith(n, types, starts, lead_stores) ==
    InitStores(n, types, starts, lead_stores) /\ LoggedIn

\* requests are handled one after another; their bodies carry any type value
Init == InitWith(1, RequestTypes, {Fresh}, InitLeadStores)

\* two request handlers run at once; the clients ask for the two modes (sync_leads
\* treats every other value as 'incremental')
InitRace == InitWith(2, SyncTypes, {Fresh, Synced}, InitLeadStores)

Next ==
    \/ SyncLeads \/ LeadFetch \/ LeadLookup \/ LeadLoad \/ LeadSave \/ LeadFinish \/ LeadFail
    \/ SyncObject \/ ObjFetch \/ ObjLookup \/ ObjSave \/ ObjDelLookup \/ ObjDelSave
    \/ ObjCounts \/ ObjComplete \/ ObjTouch \/ ObjFail
    \/ Tick \/ RemoteWrite \/ RemoteDelete
    \/ DeleteObject

Spec == Init /\ [][Next]_vars

\* the steps of the passes alone: no time passes, the remote source is not edited
NextRace ==
    \/ SyncLeads \/ LeadFetch \/ LeadLookup \/ LeadLoad \/ LeadSave \/ LeadFinish \/ LeadFail
    \/ SyncObject \/ ObjFetch \/ ObjLookup \/ ObjSave \/ ObjDelLookup \/ ObjDelSave
    \/ ObjCounts \/ ObjComplete \/ ObjTouch \/ ObjFail

SpecRace == InitRace /\ [][NextRace]_vars

\* whole passes, one after another; a comparison run is the last step of a behaviour
InitTwin == InitWith(1, SyncTypes, {Fresh, Synced, Unseen}, InitLeadStores)

NextTwin == RunSync \/ CompareModes \/ FullTwice

SpecTwin == InitTwin /\ [][NextTwin]_vars

RECURSIVE RunTo(_, _, _, _)
\* the steps of a started pass up to the point pc, with no failure
RunTo(r, rem, t, pc) ==
    IF r.p.pc \in {pc, "done"} THEN r
    ELSE RunTo(Step(r.db, r.p, rem, t, CalmEnv), rem, t, pc)

\* a full pass of LeadSyncService that began at 0 has reconciled its records and has
\* not yet saved its result
LongPass ==
    RunTo(Begin([leads |-> <<>>, records |-> <<>>, registered |-> TRUE,
                 last_sync_time |-> NoTime, sync_logs |-> <<>>],
                "lead", "full", 0, CalmEnv),
          Synced.remote, 0, "lead_finish")

\* a second full pass began one tick later and ran to its end in the meantime
ShortPass ==
    RunPass(LongPass.db, "lead", "full", Synced.remote, TickMinutes,
            [at |-> 0, kind |-> "none", tie |-> "low"])

\* passes of LeadSyncService that overlap while time passes: one is in flight, one
\* has completed
InitClock ==
    /\ now = TickMinutes
    /\ remote = Synced.remote
    /\ leads = ShortPass.db.leads
    /\ records = <<>>
    /\ last_sync_time = NoTime
    /\ registered = TRUE
    /\ sync_logs = ShortPass.db.sync_logs
    /\ pass = [w \in WorkerSet |-> IF w = Workers[1] THEN LongPass.p ELSE ShortPass.p]
    /\ faults = 0
    /\ ticks = 0
    /\ remote_ops = 0
    /\ passes = 0
    /\ lanes = 2
    /\ request_types = SyncTypes
    /\ twin = <<>>
    /\ LoggedIn

NextClock ==
    \/ SyncLeads \/ LeadFetch \/ LeadLookup \/ LeadLoad \/ LeadSave \/ LeadFinish \/ LeadFail
    \/ Tick

SpecClock == InitClock /\ [][NextClock]_vars

\* the authentication routes and the sync route of the leads, from a start at which
\* nobody has logged in
InitAuth == InitStores(1, {"full"}, {Synced}, {<<>>}) /\ LoggedOut

NextAuth ==
    \/ SalesforceLogin \/ OauthCallback \/ OauthTake \/ OauthExchange \/ Logout
    \/ SyncLeadsRoute

SpecAuth == InitAuth /\ [][NextAuth]_vars

\* one pass on the lists it was handed
InitBatch == InitWith(1, SyncTypes, {Fresh, Synced, Flagged}, InitLeadStores)

NextBatch == RunBatch

SpecBatch == InitBatch /\ [][NextBatch]_vars

\* an entry of the log table as the passes write it: started without an end, or ended
\* (completed, or failed with its message) at or after its start
LogEntry(object_type, status, start_time, end_time) ==
    [NewSyncLog(object_type, "full", start_time) EXCEPT
        !.status = status, !.end_time = end_time,
        !.error_message = IF status = "failed" THEN "error" ELSE ""]

LogEntries ==
    {LogEntry(object_type, "started", s, NoTime) :
        object_type \in {LeadType, ObjType}, s \in 0..MaxLogTime}
    \cup UNION {{LogEntry(object_type, status, s, e) : e \in s..MaxLogTime} :
                  object_type \in {LeadType, ObjType}, status \in Terminal, s \in 0..MaxLogTime}

\* the log tables of up to MaxLogs entries, in id order
LogTables == UNION {[1..n -> LogEntries] : n \in 0..MaxLogs}

\* the log queries, applied to any log table
InitLog == InitWith(1, SyncTypes, {[Fresh EXCEPT !.sync_logs = t] : t \in LogTables}, {<<>>})

NextLog == GetLatestSuccessfulSync \/ GetRecentLogs

SpecLog == InitLog /\ [][NextLog]_vars

\* ---------------------------------------------------------- properties ---

\* the rows of the table a service writes, and the remote version a row carries
RowsOf(svc) == IF svc = "lead" THEN leads ELSE records
ValueOf(svc, row) == IF svc = "lead" THEN row.val ELSE row.data

\* the handler w has just taken the step that leaves pc
Stepped(w, pcs) == pass[w].pc \in pcs /\ pass'[w] # pass[w]

\* C1: after any number of passes of either service, in any interleaving, no two rows
\* of a local table carry the same remote identifier (sf_id).
C1_NoDuplicateSfId ==
    /\ \A i, j \in 1..Len(leads) : leads[i].sf_id = leads[j].sf_id => i = j
    /\ \A i, j \in 1..Len(records) : records[i].sf_id = records[j].sf_id => i = j

\* two passes raced on the same record: the second INSERT was refused, with no injected fault
C1_Witness ==
    /\ faults = 0
    /\ \A w \in WorkerSet : pass[w].pc = "done" /\ pass[w].svc = "obj"
    /\ \E w \in WorkerSet : pass[w].skipped > 0
    /\ Len(records) > 0

\* C9: a log entry has an end_time exactly when its status is completed or failed.
C9_EndTimeIffTerminal ==
    \A k \in 1..Len(sync_logs) :
        (sync_logs[k].end_time # NoTime) <=> (sync_logs[k].status \in Terminal)

\* a failed entry and a completed entry, written by the passes of this behaviour
C9_Witness ==
    \E w, v \in WorkerSet :
        /\ pass[w].pc = "done" /\ pass[w].log # 0
        /\ sync_logs[pass[w].log].status = "failed"
        /\ sync_logs[pass[w].log].end_time # NoTime
        /\ pass[v].pc = "done" /\ pass[v].log # 0
        /\ sync_logs[pass[v].log].status = "completed"

\* C6: from a state with no completed log entry of the service, an incremental pass
\* leaves the same store, counters, result and log status as a full pass run from the
\* same state under the same inputs.
C6_IncrementalWithoutBaselineIsFull ==
    \A k \in 1..Len(twin) :
        (twin[k].kind = "modes" /\ ~twin[k].baseline) => twin[k].incremental = twin[k].full

\* both modes were run on a non-empty store without a completed entry, and did work
C6_Witness ==
    /\ Len(twin) = 1
    /\ twin[1].kind = "modes"
    /\ ~twin[1].baseline
    /\ twin[1].before.leads # <<>>
    /\ twin[1].before.records # <<>>
    /\ twin[1].incremental.status = "completed"
    /\ twin[1].incremental.created + twin[1].incremental.updated > 0

\* C2: when an incremental pass computes its watermark W, and no remote call or store
\* write has failed so far, every remote record last modified before W is held by a
\* local row that carries the record's latest values.
C2_WatermarkSound ==
    [][\A w \in WorkerSet :
          (Stepped(w, {"lead_sync", "obj_sync"}) /\ pass'[w].watermark # NoTime /\ faults' = 0)
          => \A id \in Ids :
                (remote[id].present /\ remote[id].lm < pass'[w].watermark)
                => \E k \in 1..Len(RowsOf(pass[w].svc)) :
                      /\ RowsOf(pass[w].svc)[k].sf_id = id
                      /\ ValueOf(pass[w].svc, RowsOf(pass[w].svc)[k]) = remote[id].val]_vars

\* C3: a pass whose remote fetch failed ends with its log entry failed (end_time and
\* error_message set) and with the failure handed to the caller; it never completes.
C3_FetchFailureFailsPass ==
    \A w \in WorkerSet :
        (pass[w].pc = "done" /\ pass[w].fetch_err /\ pass[w].log # 0)
        => /\ sync_logs[pass[w].log].status = "failed"
           /\ sync_logs[pass[w].log].end_time # NoTime
           /\ sync_logs[pass[w].log].error_message # ""
           /\ pass[w].result \in {"raised", "None"}

\* C4: a pass in which the reconciliation of a record raised, and nothing else did,
\* ends completed, with records_processed counting every fetched record and
\* created + updated = processed - skipped.
C4_RecordErrorSkipped ==
    \A w \in WorkerSet :
        (pass[w].pc = "done" /\ pass[w].skipped > 0 /\ ~pass[w].other_err /\ pass[w].log # 0)
        => /\ sync_logs[pass[w].log].status = "completed"
           /\ sync_logs[pass[w].log].records_processed = pass[w].processed
           /\ sync_logs[pass[w].log].records_created + sync_logs[pass[w].log].records_updated
                 = pass[w].processed - pass[w].skipped

\* C5: of two full passes run in succession on an unchanged remote source of N records,
\* the second creates 0 rows, updates N, and leaves the store as the first left it.
C5_FullTwiceIdempotent ==
    \A k \in 1..Len(twin) :
        twin[k].kind = "twice"
        => /\ twin[k].second.created = 0
           /\ twin[k].second.updated = twin[k].n
           /\ twin[k].second.leads = twin[k].first.leads
           /\ twin[k].second.records = twin[k].first.records

\* C7: when a fetched record whose local row is soft-deleted has been reconciled with
\* no store failure, that row is live again, the pass counts it as updated, and the
\* table has no more rows than before.
C7_UpsertRevivesDeleted ==
    [][\A w \in WorkerSet :
          (/\ Stepped(w, {"lead_save", "obj_save"})
           /\ faults' = faults
           /\ \E k \in 1..Len(RowsOf(pass[w].svc)) :
                 /\ RowsOf(pass[w].svc)[k].sf_id = pass[w].recs[pass[w].i].Id
                 /\ RowsOf(pass[w].svc)[k].is_deleted)
          => /\ Len(leads') = Len(leads)
             /\ Len(records') = Len(records)
             /\ \A k \in 1..Len(leads) :
                   (pass[w].svc = "lead" /\ leads[k].sf_id = pass[w].recs[pass[w].i].Id)
                   => ~leads'[k].is_deleted
             /\ \A k \in 1..Len(records) :
                   (pass[w].svc = "obj" /\ records[k].sf_id = pass[w].recs[pass[w].i].Id)
                   => ~records'[k].is_deleted
             /\ pass'[w].updated = pass[w].updated + 1]_vars

\* C8: an incremental pass whose baseline entry started at T, run when no remote call
\* or store write has failed so far, fetches every remote record last modified at or
\* after T - 5 minutes that the local store does not already hold with its latest values.
C8_BufferedRecordsFetched ==
    [][\A w \in WorkerSet :
          (/\ Stepped(w, {"lead_sync", "obj_sync"})
           /\ pass'[w].baseline # NoTime
           /\ faults' = 0)
          => \A id \in Ids :
                (/\ remote[id].present
                 /\ remote[id].lm >= pass'[w].baseline - BufferMinutes)
                => \/ \E n \in 1..Len(pass'[w].recs) : pass'[w].recs[n].Id = id
                   \/ \E k \in 1..Len(RowsOf(pass[w].svc)) :
                         /\ RowsOf(pass[w].svc)[k].sf_id = id
                         /\ ValueOf(pass[w].svc, RowsOf(pass[w].svc)[k]) = remote[id].val]_vars

\* C10: a log entry whose status is completed or failed keeps that status.
C10_TerminalStatusFinal ==
    [][\A k \in 1..Len(sync_logs) :
          sync_logs[k].status \in Terminal => sync_logs'[k].status = sync_logs[k].status]_vars

\* a store write after `completed` failed: the pass ended in an exception and its
\* entry is still completed
C10_Witness ==
    \E w \in WorkerSet :
        /\ pass[w].pc = "done" /\ pass[w].svc = "obj" /\ pass[w].log # 0
        /\ pass[w].broken
        /\ pass[w].result = "raised"
        /\ sync_logs[pass[w].log].status = "completed"

\* C11: a log entry carries a non-empty error message exactly when its status is
\* failed; started and completed entries carry none.
C11_ErrorMessageIffFailed ==
    \A k \in 1..Len(sync_logs) :
        (sync_logs[k].error_message # "") <=> (sync_logs[k].status = "failed")

\* a pass was started after another one had failed: a failed entry with its message
\* beside a started entry without one
C11_Witness ==
    \E k, j \in 1..Len(sync_logs) :
        /\ sync_logs[k].status = "failed" /\ sync_logs[k].error_message # ""
        /\ sync_logs[j].status = "started" /\ sync_logs[j].error_message = ""
        /\ k < j

\* C12: when a call of sync_leads / sync_object that saved its log entry has returned
\* or raised, that entry is completed or failed, never still started.
C12_PassEndsTerminal ==
    \A w \in WorkerSet :
        (pass[w].pc = "done" /\ pass[w].log # 0)
        => sync_logs[pass[w].log].status \in Terminal

\* C13: a pass that ends failed leaves the baseline of later incremental passes as it
\* was: SyncLog.get_latest_successful_sync returns the same entry for either service,
\* and SalesforceObject.last_sync_time is unchanged.
C13_FailedPassKeepsBaseline ==
    [][\A w \in WorkerSet :
          (/\ pass'[w] # pass[w]
           /\ pass'[w].pc = "done" /\ pass'[w].log # 0
           /\ sync_logs'[pass'[w].log].status = "failed")
          => /\ last_sync_time' = last_sync_time
             /\ \A type \in {LeadType, ObjType}, tie \in Ties :
                   get_latest_successful_sync(sync_logs', type, tie)
                      = get_latest_successful_sync(sync_logs, type, tie)]_vars

\* a pass has failed after a pass of the same service had completed
C13_Witness ==
    \E w \in WorkerSet :
        /\ pass[w].pc = "done" /\ pass[w].log # 0
        /\ sync_logs[pass[w].log].status = "failed"
        /\ \E k \in CompletedOf(sync_logs, TypeOf(pass[w].svc)) : k < pass[w].log
        /\ pass[w].sync_type = "incremental"

\* C14: a full pass that runs on an empty local table, with no failure of a remote call
\* or of the store, against N remote records returns processed = N, created = N,
\* updated = 0, deleted = 0, and leaves exactly N active rows, one per remote identifier.
C14_FullOnEmptyStore ==
    [][\A w \in WorkerSet :
          (/\ pass'[w] # pass[w]
           /\ pass'[w].pc = "done" /\ pass'[w].sync_type = "full"
           /\ RowsOf(pass'[w].svc) = <<>>
           /\ faults' = faults)
          => LET fetched == RemoteAll(remote)
                 rows == IF pass'[w].svc = "lead" THEN leads' ELSE records'
                 active == {k \in 1..Len(rows) : ~rows[k].is_deleted}
             IN /\ pass'[w].result = "result"
                /\ pass'[w].processed = Len(fetched)
                /\ pass'[w].created = Len(fetched)
                /\ pass'[w].updated = 0
                /\ pass'[w].deleted = 0
                /\ Cardinality(active) = Len(fetched)
                /\ \A n \in 1..Len(fetched) :
                      Cardinality({k \in active : rows[k].sf_id = fetched[n].Id}) = 1]_vars

\* the first pass of a behaviour was a full pass of LeadSyncService on an empty table:
\* it created both leads
C14_Witness ==
    \E w \in WorkerSet :
        /\ passes = 1 /\ faults = 0
        /\ pass[w].pc = "done" /\ pass[w].svc = "lead" /\ pass[w].sync_type = "full"
        /\ pass[w].created = 2
        /\ Len(Lead_get_all_active(leads)) = 2 /\ Len(leads) = 2

\* C15: no step removes a row of an entity table: every remote identifier held by a
\* local row before a step is held by a local row after it.
C15_RowsNeverRemoved ==
    [][/\ \A k \in 1..Len(leads) : \E j \in 1..Len(leads') : leads'[j].sf_id = leads[k].sf_id
       /\ \A k \in 1..Len(records) :
             \E j \in 1..Len(records') : records'[j].sf_id = records[k].sf_id]_vars

\* C16: every log entry's sync mode is full or incremental: no trigger path starts a
\* pass, or writes an entry, for a request that carries another value.
C16_SyncTypeIsMode ==
    \A k \in 1..Len(sync_logs) : sync_logs[k].sync_type \in SyncTypes

\* C17: SyncLog.get_latest_successful_sync returns None exactly when no entry of the
\* type is completed; otherwise it returns a completed entry of that type whose end
\* time no completed entry of the type exceeds.
C17_LatestSuccessfulSync ==
    \A n \in 1..Len(twin) :
        twin[n].kind = "latest"
        => LET k == twin[n].found
               done == {j \in 1..Len(sync_logs) :
                           /\ sync_logs[j].object_type = twin[n].object_type
                           /\ sync_logs[j].status = "completed"}
           IN /\ (k = 0) <=> (done = {})
              /\ k # 0 => /\ k \in done
                          /\ \A j \in done : sync_logs[j].end_time <= sync_logs[k].end_time

\* the query returned a completed entry although a failed entry of the same type
\* ended later
C17_Witness ==
    /\ Len(twin) = 1 /\ twin[1].kind = "latest" /\ twin[1].found # 0
    /\ \E j \in 1..Len(sync_logs) :
          /\ sync_logs[j].object_type = twin[1].object_type
          /\ sync_logs[j].status = "failed"
          /\ sync_logs[j].end_time > sync_logs[twin[1].found].end_time

\* C18: SyncLog.get_recent_logs(type, limit) returns at most limit entries, all of the
\* type, newest first by start time, and no entry of the type left out is newer than
\* one returned; two calls with no pass in between return the same sequence.
C18_RecentLogs ==
    /\ \A n \in 1..Len(twin) :
          twin[n].kind = "recent"
          => LET rows == twin[n].rows
                 S == {j \in 1..Len(sync_logs) :
                          sync_logs[j].object_type = twin[n].object_type}
                 got == {rows[i] : i \in 1..Len(rows)}
             IN /\ Len(rows) <= twin[n].limit
                /\ got \subseteq S
                /\ Cardinality(got) = Len(rows)
                /\ Len(rows) = twin[n].limit \/ got = S
                /\ \A i, j \in 1..Len(rows) :
                      i < j => sync_logs[rows[i]].start_time >= sync_logs[rows[j]].start_time
                /\ \A j \in S \ got, i \in got :
                      sync_logs[j].start_time <= sync_logs[i].start_time
    /\ (Len(twin) = 2 /\ twin[1].kind = "recent") => twin[2].rows = twin[1].rows

\* C19: an incremental pass of SyncService that ran with no failure, on the deletion
\* list it fetched: every listed identifier with a local row has that row flagged
\* is_deleted, a listed identifier without a local row gets none, and the pass's
\* deleted counter (returned and logged) is the number of listed identifiers with a row.
C19_DeletionsMarked ==
    [][\A w \in WorkerSet :
          (/\ pass'[w] # pass[w]
           /\ pass'[w].pc = "done" /\ pass'[w].svc = "obj"
           /\ pass'[w].sync_type = "incremental" /\ pass'[w].watermark # NoTime
           /\ faults' = faults)
          => LET dels == Svc_get_deleted_records(remote, last_sync_time, now, TRUE)
                 held == {n \in 1..Len(dels) :
                             \E k \in 1..Len(records) : records[k].sf_id = dels[n]}
             IN /\ \A n \in held :
                      \E k \in 1..Len(records') :
                          records'[k].sf_id = dels[n] /\ records'[k].is_deleted
                /\ \A n \in (1..Len(dels)) \ held :
                      \A k \in 1..Len(records') : records'[k].sf_id # dels[n]
                /\ pass'[w].deleted = Cardinality(held)
                /\ sync_logs'[pass'[w].log].records_deleted = Cardinality(held)]_vars

\* an incremental pass has flagged the row of the record deleted at the remote source
C19_Witness ==
    \E w \in WorkerSet :
        /\ pass[w].pc = "done" /\ pass[w].svc = "obj" /\ pass[w].sync_type = "incremental"
        /\ pass[w].result = "result" /\ pass[w].deleted = 1
        /\ \E k \in 1..Len(records) : records[k].sf_id = "L2" /\ records[k].is_deleted

\* C20: a full pass detects no deletion: it flags no row is_deleted that was not
\* flagged, leaves every row whose identifier the remote source does not list as it
\* was, and its deleted counter (returned and logged) is 0.
C20_FullPassDeletesNothing ==
    [][\A w \in WorkerSet :
          (/\ pass'[w] # pass[w]
           /\ pass'[w].pc = "done" /\ pass'[w].sync_type = "full")
          => LET listed == {RemoteAll(remote)[n].Id : n \in 1..Len(RemoteAll(remote))}
             IN /\ Len(leads') >= Len(leads) /\ Len(records') >= Len(records)
                /\ \A k \in 1..Len(leads) :
                      /\ leads'[k].sf_id = leads[k].sf_id
                      /\ leads'[k].is_deleted => leads[k].is_deleted
                      /\ leads[k].sf_id \notin listed => leads'[k] = leads[k]
                /\ \A k \in 1..Len(records) :
                      /\ records'[k].sf_id = records[k].sf_id
                      /\ records'[k].is_deleted => records[k].is_deleted
                      /\ records[k].sf_id \notin listed => records'[k] = records[k]
                /\ \A k \in (Len(leads) + 1)..Len(leads') : ~leads'[k].is_deleted
                /\ \A k \in (Len(records) + 1)..Len(records') : ~records'[k].is_deleted
                /\ pass'[w].deleted = 0
                /\ pass'[w].log # 0 => sync_logs'[pass'[w].log].records_deleted = 0]_vars

\* a full pass of SyncService has completed and left the row of L2, which the remote
\* source no longer lists, unflagged
C20_Witness ==
    \E w \in WorkerSet :
        /\ pass[w].pc = "done" /\ pass[w].svc = "obj" /\ pass[w].sync_type = "full"
        /\ pass[w].result = "result" /\ pass[w].updated = 1
        /\ ~remote["L2"].present
        /\ \E k \in 1..Len(records) : records[k].sf_id = "L2" /\ ~records[k].is_deleted

\* ------------------------------------------- passes on the lists handed back --
\* a pass has run on the lists recorded in twin[1]
IsBatch == twin # <<>> /\ twin[1].kind = "batch"

\* the rows of the pass's table before and after it
BatchBefore == IF twin[1].svc = "lead" THEN twin[1].before.leads ELSE twin[1].before.records
BatchAfter == IF twin[1].svc = "lead" THEN twin[1].out.leads ELSE twin[1].out.records

\* the identifiers of the first k records of the list
IdsOfFirst(recs, k) == {recs[n].Id : n \in 1..k}

\* the last of the first k records that carries id
LastOf(recs, k, id) ==
    recs[CHOOSE n \in 1..k : recs[n].Id = id /\ \A m \in (n + 1)..k : recs[m].Id # id]

C22_CompletedCounters ==
    (IsBatch /\ twin[1].out.status = "completed")
    => LET e == twin[1].entry[1]
           out == twin[1].out
       IN /\ e.records_processed >= 0 /\ e.records_created >= 0
          /\ e.records_updated >= 0 /\ e.records_deleted >= 0
          /\ e.records_created + e.records_updated + e.records_deleted
               <= e.records_processed
          /\ e.records_processed = Len(twin[1].recs) + Len(twin[1].dels)
          /\ out.result = "result" =>
                /\ e.records_processed = out.processed
                /\ e.records_created = out.created
                /\ e.records_updated = out.updated
                /\ e.records_deleted = out.deleted

\* a completed pass that skipped a record: its counters add up to less than it fetched
C22_Witness ==
    /\ IsBatch /\ twin[1].out.status = "completed" /\ twin[1].out.result = "result"
    /\ twin[1].out.skipped = 1
    /\ twin[1].entry[1].records_created = 1
    /\ twin[1].entry[1].records_created + twin[1].entry[1].records_updated
         + twin[1].entry[1].records_deleted < twin[1].entry[1].records_processed

\* the pass recorded in twin[1] completed and no record of its list was skipped
CleanBatch == IsBatch /\ twin[1].out.status = "completed" /\ twin[1].out.skipped = 0

\* the identifiers of the list that had no row before the pass
NewIds ==
    {id \in IdsOfFirst(twin[1].recs, Len(twin[1].recs)) :
        \A j \in 1..Len(BatchBefore) : BatchBefore[j].sf_id # id}

C28_UpsertsBeforeDeletions ==
    (CleanBatch /\ twin[1].svc = "obj" /\ twin[1].sync_type = "incremental")
    => LET recs == twin[1].recs
           dels == twin[1].dels
           out == twin[1].out
       IN /\ \A n \in 1..Len(dels) :
                (\E m \in 1..Len(recs) : recs[m].Id = dels[n])
                => /\ Cardinality({j \in 1..Len(out.records) :
                                       out.records[j].sf_id = dels[n]}) = 1
                   /\ \A j \in 1..Len(out.records) :
                         out.records[j].sf_id = dels[n] =>
                             /\ out.records[j].is_deleted
                             /\ out.records[j].data = LastOf(recs, Len(recs), dels[n]).val
          /\ out.created + out.updated = Len(recs)
          /\ out.deleted
               = Cardinality({n \in 1..Len(dels) :
                                 \E j \in 1..Len(out.records) :
                                     out.records[j].sf_id = dels[n]})

\* the identifier of a fetched record was in both lists: its row holds the fetched
\* value and is flagged, and both the upsert and the deletion are counted
C28_Witness ==
    /\ CleanBatch /\ twin[1].svc = "obj" /\ twin[1].sync_type = "incremental"
    /\ Len(twin[1].recs) = 1 /\ Len(twin[1].dels) = 1
    /\ twin[1].recs[1].Id = twin[1].dels[1]
    /\ twin[1].out.created + twin[1].out.updated = 1 /\ twin[1].out.deleted = 1
    /\ \E j \in 1..Len(twin[1].out.records) :
          /\ twin[1].out.records[j].sf_id = twin[1].dels[1]
          /\ twin[1].out.records[j].is_deleted
          /\ twin[1].out.records[j].data = 2

\* C26: the created counter a pass hands back is the number of rows the pass
\* inserted (rows are only ever appended): a record that led to no insert, such as
\* one with an empty Id, is not counted as created.
C26_CreatedIsInserted ==
    (IsBatch /\ twin[1].out.result = "result")
    => twin[1].out.created = Len(BatchAfter) - Len(BatchBefore)

\* every record of the list with an Id has an active row that holds the values of
\* the record (of the last one, when the list names the Id more than once)
AllStored ==
    \A id \in IdsOfFirst(twin[1].recs, Len(twin[1].recs)) \ {NoId} :
        \E j \in 1..Len(BatchAfter) :
            /\ BatchAfter[j].sf_id = id
            /\ ~BatchAfter[j].is_deleted
            /\ ValueOf(twin[1].svc, BatchAfter[j])
                 = LastOf(twin[1].recs, Len(twin[1].recs), id).val

C24_RacingInsertsAbsorbed ==
    (/\ faults = 0
     /\ \A w \in WorkerSet : pass[w].pc = "done" /\ pass[w].svc = pass[Workers[1]].svc
     /\ \A k \in 1..Len(leads) : ~leads[k].is_deleted)
    => /\ \A w \in WorkerSet :
             pass[w].log # 0 /\ sync_logs[pass[w].log].status = "completed"
       /\ \A j, k \in 1..Len(RowsOf(pass[Workers[1]].svc)) :
             RowsOf(pass[Workers[1]].svc)[j].sf_id = RowsOf(pass[Workers[1]].svc)[k].sf_id => j = k


\* C27: the watermark of LeadSyncService never moves backwards: of two incremental
\* passes that each computed a watermark from a baseline entry, the one that started
\* later (its entry is the later row of the log) computed a watermark that is not
\* before the other's.
C27_WatermarkMonotone ==
    \A w, v \in WorkerSet :
        (/\ pass[w].svc = "lead" /\ pass[v].svc = "lead"
         /\ pass[w].baseline # NoTime /\ pass[v].baseline # NoTime
         /\ pass[w].log # 0 /\ pass[w].log < pass[v].log)
        => pass[w].watermark <= pass[v].watermark

\* ------------------------------------------------------ authentication ---
\* the state values that were issued and are no longer stored
Consumed == (1..issued) \ oauth_states

\* the answers of callbacks that had taken their state
AcceptedAnswers(state) ==
    {n \in 1..Len(answers) :
        /\ answers[n].route = "callback"
        /\ answers[n].arg.state = state
        /\ answers[n].message \in {"auth=success", "Failed to exchange code for token",
                                    "auth=error: access_token"}}

\* C29: a state value is used once.  A callback takes a state only if the state is
\* stored, and the state is then stored no longer; only /api/auth/login stores a
\* state, and always a new one; so no state is taken by two callbacks.  A callback
\* that arrives with a code and a state that was taken before is answered 400
\* 'Invalid state parameter'.  user_tokens grows only by the callback that took a
\* state and got a token, by one new session id.
C29_StateSingleUse ==
    [][/\ \A w \in WorkerSet :
             /\ (callback[w].pc = "idle" /\ callback'[w].pc = "take")
                => callback'[w].state \in oauth_states
             /\ (callback[w].pc = "take" /\ callback'[w].pc = "exchange")
                => /\ callback[w].state \in oauth_states
                   /\ callback[w].state \notin oauth_states'
       /\ oauth_states' \subseteq oauth_states \cup {issued + 1}
       /\ issued' >= issued
       /\ oauth_states' \subseteq 1..issued'
       /\ \A state \in 1..issued' :
             Cardinality(AcceptedAnswers(state)')
               + Cardinality({w \in WorkerSet : callback'[w] = [pc |-> "exchange",
                                                                state |-> state]}) <= 1
       /\ (Len(answers') > Len(answers) /\ callback' = callback
           /\ answers'[Len(answers')].route = "callback"
           /\ answers'[Len(answers')].arg.code /\ ~answers'[Len(answers')].arg.error
           /\ answers'[Len(answers')].arg.state \in Consumed)
          => /\ answers'[Len(answers')].status = 400
             /\ answers'[Len(answers')].message = "Invalid state parameter"
       /\ user_tokens' # user_tokens
          => \/ user_tokens' \subseteq user_tokens
             \/ /\ user_tokens' = user_tokens \cup {minted'} /\ minted' = minted + 1
                /\ \E w \in WorkerSet :
                      /\ callback[w].pc = "exchange" /\ callback'[w].pc = "idle"
                      /\ answers'[Len(answers')]
                           = Answer("callback", Passed(callback[w].state), 302,
                                    "auth=success")]_vars

\* a callback took the state 1 and stored a token; a later callback with the state 1
\* was answered 'Invalid state parameter'
C29_Witness ==
    \E m, n \in 1..Len(answers) :
        /\ m < n
        /\ answers[m] = Answer("callback", Passed(1), 302, "auth=success")
        /\ answers[n] = Answer("callback", Passed(1), 400, "Invalid state parameter")
        /\ user_tokens = {1}

\* C30: POST /api/sync/leads has no effect without an authenticated session.  While
\* user_tokens holds no session id, no step adds an entry to the log or writes a row
\* of leads; an answer of the route that is not the result of a pass is the 401, given
\* to a session id that is absent from user_tokens (or whose token Salesforce
\* refused), and it comes with no new entry and no change of leads.
C30_NoSyncWithoutSession ==
    [][/\ user_tokens = {}
          => sync_logs' = sync_logs /\ leads' = leads /\ pass' = pass
       /\ (Len(answers') > Len(answers)
           /\ answers'[Len(answers')].route = "sync_leads")
          => /\ answers'[Len(answers')].status = 401
             /\ sync_logs' = sync_logs /\ leads' = leads /\ pass' = pass
       /\ sync_logs' # sync_logs => answers' = answers /\ user_tokens # {}]_vars

\* the session 1 had a token and has logged out; its sync request was answered 401
\* and the log has no entry
C30_Witness ==
    /\ minted >= 1 /\ 1 \notin user_tokens
    /\ \E n \in 1..Len(answers) :
          answers[n] = Answer("sync_leads", 1, 401,
                              "Please authenticate with Salesforce first")
    /\ \A n \in 1..Len(sync_logs) : sync_logs[n].object_type # LeadType
    /\ leads = <<>>

====
